---- MODULE Spec2Model ----
(***************************************************************************)
(* Model of src/menu-designe.py, the "Unified GitHub Manager": the menu    *)
(* handlers that clone the account's repositories into the workspace, run  *)
(* pull / push / sync over the workspace, manage one local repository, and *)
(* delete remote repositories.                                             *)
(*                                                                         *)
(* The git executable and the hosting API are the environment: every       *)
(* invocation either succeeds or fails, chosen nondeterministically.       *)
(* A URL is a sequence of symbols: the eight characters "https://" are one *)
(* symbol (the string does not overlap itself, so every URL splits in one  *)
(* way), "@" is one symbol, the process's token is one symbol, and "x"     *)
(* stands for any other text (host, path, another user, a stale token).    *)
(***************************************************************************)
EXTENDS Integers, Sequences, FiniteSets, TLC

\* ------------------------------------------------------------------ bounds
NRemote == 3      \* remote repositories in the account
NNames == 2       \* distinct repository names (so two remotes share a name)
MaxSel == 2       \* numbers typed in one "comma-separated" clone selection
MaxUrlLen == 4    \* symbols of an origin URL under SpecEmbed
MaxCalls == 2     \* calls of fix_remote_with_token on one URL under SpecEmbed

\* ------------------------------------------------------------------ URLs
Scheme == "https://"
At == "@"
TOKEN == "TOKEN"
Other == "x"
Sym == {Scheme, At, TOKEN, Other}

RECURSIVE SeqsUpTo(_, _)
SeqsUpTo(S, n) ==
    IF n = 0 THEN {<<>>}
    ELSE LET shorter == SeqsUpTo(S, n - 1)
         IN shorter \cup {Append(s, x) : s \in {t \in shorter : Len(t) = n - 1}, x \in S}

Urls == SeqsUpTo(Sym, MaxUrlLen)

\* origin.startswith("https://")
StartsWithHttps(u) == Len(u) >= 1 /\ u[1] = Scheme

\* "@" in origin
HasAt(u) == \E i \in 1..Len(u) : u[i] = At

\* origin.replace("https://", f"https://{TOKEN}@"): str.replace without a count
\* rewrites every occurrence
ReplaceNothing(u) == u

RECURSIVE ReplaceScheme(_)
ReplaceScheme(u) ==
    IF u = <<>> THEN <<>>
    ELSE (IF Head(u) = Scheme THEN <<Scheme, TOKEN, At>> ELSE <<Head(u)>>)
         \o ReplaceScheme(Tail(u))

\* the rewriting shared by fix_remote_with_token, clone_to_workspace and
\* per_repo_manager: only a plain https:// URL with no "@" is rewritten
EmbedToken(u) == IF StartsWithHttps(u) /\ ~HasAt(u) THEN ReplaceScheme(u) ELSE u

\* the URL starts with https://TOKEN@
HasCredential(u) == Len(u) >= 3 /\ u[1] = Scheme /\ u[2] = TOKEN /\ u[3] = At

\* occurrences of the token in a URL
RECURSIVE CountToken(_)
CountToken(u) ==
    IF u = <<>> THEN 0 ELSE (IF Head(u) = TOKEN THEN 1 ELSE 0) + CountToken(Tail(u))

\* r.clone_url as the hosting API gives it
CloneUrl == <<Scheme, Other>>

\* the origin URLs a repository found in the workspace may have
OriginForms ==
    { <<Scheme, Other>>,                  \* plain https
      <<Scheme, Other, At, Other>>,       \* https with another user or stale token
      <<Scheme, TOKEN, At, Other>>,       \* credential already embedded
      <<Other, At, Other>>,               \* ssh form
      <<Scheme, Other, Scheme, Other>> }  \* https mirror URL wrapping a second https URL

\* ------------------------------------------------------------------ state
Names == 1..NNames          \* WORKSPACE/<name>, one directory per repository name
Root == 0                   \* WORKSPACE itself
Paths == {Root} \cup Names
RepoIds == 1..NRemote
RepoName(r) == ((r - 1) % NNames) + 1     \* r.name; two remotes may share a name

VARIABLES
    ws,        \* the filesystem: path -> directory record
    remote,    \* the repositories the account still has
    pc,        \* "menu", "clone" (clone loop), "batch" (batch loop), "manage" (manager loop)
    choice,    \* the batch manager's menu choice
    queue,     \* what the running loop has still to process (to_clone / dirs)
    mpath,     \* the per-repo manager's path
    outcome,   \* this batch run: name -> what was reported for it
    gitFailed, \* this batch run: the names for which some git command failed
    last,      \* what the last handler step did: its calls and its reports
    eurl       \* under SpecEmbed: an origin URL before, after one and after
               \* all calls of fix_remote_with_token, the calls made, and whether a
               \* git command of one of them failed

vars == <<ws, remote, pc, choice, queue, mpath, outcome, gitFailed, last, eurl>>

AbsentDir == [kind |-> "absent", origin |-> <<>>, dirty |-> FALSE, ahead |-> FALSE, src |-> "none"]
PlainDir(src) == [kind |-> "plain", origin |-> <<>>, dirty |-> FALSE, ahead |-> FALSE, src |-> src]
RepoDir(origin, src) == [kind |-> "repo", origin |-> origin, dirty |-> FALSE, ahead |-> FALSE, src |-> src]

Exists(d) == d.kind # "absent"          \* os.path.exists / os.path.isdir
IsGitRepo(d) == d.kind = "repo"         \* os.path.isdir(os.path.join(path, ".git"))

Ev(cmd, ok) == [cmd |-> cmd, res |-> IF ok THEN "ok" ELSE "fail"]
Failed(e) == e.res \in {"fail", "error"}
Has(t, x) == \E i \in 1..Len(t) : t[i] = x

NoSel == [isnum |-> FALSE, n |-> 0]
Idle == [op |-> "none", who |-> 0, pre |-> AbsentDir, trace |-> <<>>, reports |-> <<>>,
         sel |-> NoSel, asked |-> FALSE, answer |-> FALSE]

NoOutcome == [n \in Names |-> "none"]
NoUrl == [before |-> <<>>, once |-> <<>>, now |-> <<>>, calls |-> 0, failed |-> FALSE]

\* what the user may type at a "Select repo number" prompt: a number, or text
\* int() rejects
Sels == {[isnum |-> TRUE, n |-> k] : k \in -1..(NRemote + 1)} \cup {NoSel}

\* what the user may type where only "a repository was picked or not" matters
FewSels == {NoSel, [isnum |-> TRUE, n |-> 0], [isnum |-> TRUE, n |-> 1],
            [isnum |-> TRUE, n |-> NRemote + 1]}

\* list_repos(): the account's repositories, in the order the API gives them
RECURSIVE SortedSeq(_)
SortedSeq(S) ==
    IF S = {} THEN <<>>
    ELSE LET m == CHOOSE x \in S : \A y \in S : x <= y
         IN <<m>> \o SortedSeq(S \ {m})

ListRepos(listOk) == IF listOk THEN SortedSeq(remote) ELSE <<>>

\* repos[int(sel) - 1]: Python indexing, where a negative index counts from
\* the end of the list; 0 stands for the exception (ValueError, IndexError)
Pick(repos, sel) ==
    IF ~sel.isnum THEN 0
    ELSE LET idx == sel.n - 1
         IN IF 0 <= idx /\ idx < Len(repos) THEN repos[idx + 1]
            ELSE IF idx < 0 /\ -idx <= Len(repos) THEN repos[Len(repos) + idx + 1]
            ELSE 0

\* ------------------------------------------------------------------ fix_remote_with_token
\* log_action(f"Updated remote for {repo_path}") runs whatever safe_run returned
FixLog(setOk) == <<"Updated remote">>

FixRemote(d, getOk, setOk) ==
    IF ~(getOk /\ IsGitRepo(d))
    THEN [dir |-> d, trace |-> <<Ev("get-url", FALSE)>>, reports |-> <<>>]
    ELSE IF StartsWithHttps(d.origin) /\ ~HasAt(d.origin)
    THEN [dir |-> IF setOk THEN [d EXCEPT !.origin = ReplaceScheme(d.origin)] ELSE d,
          trace |-> <<Ev("get-url", TRUE), Ev("set-url", setOk)>>,
          reports |-> FixLog(setOk)]
    ELSE [dir |-> d, trace |-> <<Ev("get-url", TRUE)>>, reports |-> <<>>]

\* ------------------------------------------------------------------ git add / commit / push
\* git commit's exit: 0 when a commit was made; non-zero both when the tree is
\* clean and when the commit itself failed (no identity, corrupted index)
CommitResult(d, commitOk) ==
    IF ~commitOk THEN "error" ELSE IF d.dirty THEN "ok" ELSE "clean"

\* if c.returncode == 0: push
PushAlways(cres) == TRUE
ShouldPush(cres) == cres = "ok"

\* run(add); c = subprocess.run(commit); if c.returncode == 0: run(push); else
\* "Nothing to commit".  raised: a run(...) raised CalledProcessError
CommitAndPush(d, in, done, nothing) ==
    LET cres == CommitResult(d, in.commitOk)
        commit == [cmd |-> "commit", res |-> cres]
        d1 == IF cres = "ok" THEN [d EXCEPT !.dirty = FALSE, !.ahead = TRUE] ELSE d
    IN IF ~in.addOk
       THEN [dir |-> d, trace |-> <<Ev("add", FALSE)>>, reports |-> <<>>, raised |-> TRUE]
       ELSE IF ShouldPush(cres)
       THEN [dir |-> IF in.pushOk THEN [d1 EXCEPT !.ahead = FALSE] ELSE d1,
             trace |-> <<Ev("add", TRUE), commit, Ev("push", in.pushOk)>>,
             reports |-> IF in.pushOk THEN <<done>> ELSE <<>>,
             raised |-> ~in.pushOk]
       ELSE [dir |-> d1, trace |-> <<Ev("add", TRUE), commit>>,
             reports |-> <<nothing>>, raised |-> FALSE]

\* the results of the git commands one handler step may run.  get-url and
\* set-url fail independently of the rest (set-url runs only after get-url
\* succeeded); of pull, add, commit and push no command runs after the first
\* one that fails, so one point of failure covers every combination
GitInputs ==
    {[getOk |-> gs[1], setOk |-> gs[2], pullOk |-> f # "pull", addOk |-> f # "add",
      commitOk |-> f # "commit", pushOk |-> f # "push"] :
        gs \in {<<TRUE, TRUE>>, <<TRUE, FALSE>>, <<FALSE, TRUE>>},
        f \in {"none", "pull", "add", "commit", "push"}}

\* ------------------------------------------------------------------ batch_workspace_manager
\* one iteration of "for repo_name in dirs": fix_remote_with_token outside the
\* try, then pull and/or add-commit-push inside it
\* run(["git", "-C", path, "pull"]) raises when the pull fails, which leaves
\* the try block
PullAbortsNever(doPull, pullOk) == FALSE
PullAborts(doPull, pullOk) == doPull /\ ~pullOk

BatchRepo(d, c, in) ==
    LET fix == FixRemote(d, in.getOk, in.setOk)
        doPull == c \in {"1", "3"}
        doPush == c \in {"2", "3"}
        pullT == IF doPull THEN <<Ev("pull", in.pullOk)>> ELSE <<>>
        pulled == IF doPull /\ in.pullOk THEN <<"Pulled">> ELSE <<>>
        cp == CommitAndPush(fix.dir, in, "Pushed", "Nothing to commit")
    IN IF PullAborts(doPull, in.pullOk)
       THEN [dir |-> fix.dir, trace |-> fix.trace \o pullT,
             reports |-> fix.reports \o <<"Failed">>]
       ELSE IF doPush
       THEN [dir |-> cp.dir, trace |-> fix.trace \o pullT \o cp.trace,
             reports |-> fix.reports \o pulled \o cp.reports
                         \o (IF cp.raised THEN <<"Failed">> ELSE <<>>)]
       ELSE [dir |-> fix.dir, trace |-> fix.trace \o pullT,
             reports |-> fix.reports \o pulled]

\* the outcome the run shows for a repository
OutcomeOf(reports) ==
    IF Has(reports, "Failed") THEN "failed"
    ELSE IF Has(reports, "Nothing to commit") THEN "nothing"
    ELSE "ok"

\* dirs: the sorted names of the workspace's directories that hold a .git
BatchDirsTwice ==
    LET dirs == SortedSeq({n \in Names : IsGitRepo(ws[n])}) IN dirs \o dirs
BatchDirs == SortedSeq({n \in Names : IsGitRepo(ws[n])})

BatchStart(c) ==
    /\ pc = "menu"
    /\ Exists(ws[Root])
    /\ BatchDirs # <<>>
    /\ c # "4"
    /\ pc' = "batch"
    /\ choice' = c
    /\ queue' = BatchDirs
    /\ outcome' = NoOutcome
    /\ gitFailed' = {}
    /\ last' = [Idle EXCEPT !.op = "batch"]
    /\ UNCHANGED <<ws, remote, mpath, eurl>>

BatchStep(in) ==
    /\ pc = "batch"
    /\ queue # <<>>
    /\ LET n == Head(queue)
           r == BatchRepo(ws[n], choice, in)
       IN /\ ws' = [ws EXCEPT ![n] = r.dir]
          /\ outcome' = [outcome EXCEPT ![n] = OutcomeOf(r.reports)]
          /\ gitFailed' = IF \E i \in 1..Len(r.trace) : Failed(r.trace[i])
                          THEN gitFailed \cup {n} ELSE gitFailed
          /\ last' = [Idle EXCEPT !.op = "batch", !.who = n, !.pre = ws[n],
                                  !.trace = r.trace, !.reports = r.reports]
    /\ queue' = Tail(queue)
    /\ UNCHANGED <<remote, pc, choice, mpath, eurl>>

\* "Batch operations completed." and back to the main menu
BatchDone ==
    /\ pc = "batch"
    /\ queue = <<>>
    /\ pc' = "menu"
    /\ choice' = "4"
    /\ outcome' = NoOutcome
    /\ gitFailed' = {}
    /\ last' = Idle
    /\ UNCHANGED <<ws, remote, queue, mpath, eurl>>

\* ------------------------------------------------------------------ clone_to_workspace
\* what a failed git clone may leave at a destination that did not exist:
\* nothing, a directory without .git, or a directory with .git and its origin set
Leftovers(url) == {AbsentDir, PlainDir("failed"), RepoDir(url, "failed")}

\* the numbers typed at "Enter numbers (comma-separated)"
Typed == SeqsUpTo(0..(NRemote + 1), MaxSel)

\* [repos[n - 1] for n in nums if 1 <= n <= len(repos)]
RECURSIVE Selected(_, _)
Selected(repos, nums) ==
    IF nums = <<>> THEN <<>>
    ELSE (IF 1 <= Head(nums) /\ Head(nums) <= Len(repos)
          THEN <<repos[Head(nums)]>> ELSE <<>>) \o Selected(repos, Tail(nums))

\* os.makedirs(WORKSPACE, exist_ok=True)
MakeRoot(w) == IF Exists(w[Root]) THEN w ELSE [w EXCEPT ![Root] = PlainDir("ok")]

\* the answers clone_to_workspace reads before its loop: the listing works or
\* not, the choice, and for choice 2 the numbers typed, or text int() rejects
CloneAnswers ==
    {[listOk |-> TRUE, ch |-> "2", nums |-> t, parses |-> TRUE] : t \in Typed}
    \cup {[listOk |-> l, ch |-> c, nums |-> <<>>, parses |-> c # "2"] :
              l \in BOOLEAN, c \in {"1", "2", "3"}}

\* up to the loop: the workspace is created, the repositories listed, the
\* selection read; every early return leaves nothing to clone
CloneStart(in) ==
    /\ pc = "menu"
    /\ LET repos == ListRepos(in.listOk)
       IN queue' = IF repos = <<>> THEN <<>>
                   ELSE IF in.ch = "1" THEN repos
                   ELSE IF in.ch = "2" /\ in.parses THEN Selected(repos, in.nums)
                   ELSE <<>>
    /\ ws' = MakeRoot(ws)
    /\ pc' = "clone"
    /\ last' = [Idle EXCEPT !.op = "clone"]
    /\ UNCHANGED <<remote, choice, mpath, outcome, gitFailed, eurl>>

\* if os.path.exists(dst)
SkipNever(d) == FALSE
SkipClone(d) == Exists(d)

\* one iteration of "for r in to_clone"
CloneRepo(d, cloneOk, left, getOk, setOk) ==
    LET url == EmbedToken(CloneUrl)
        fixOld == FixRemote(d, getOk, setOk)
        fixNew == FixRemote(RepoDir(url, "ok"), getOk, setOk)
    IN IF SkipClone(d)
       THEN [dir |-> fixOld.dir, trace |-> fixOld.trace,
             reports |-> <<"Already exists">> \o fixOld.reports]
       ELSE IF cloneOk
       THEN [dir |-> fixNew.dir, trace |-> <<Ev("clone", TRUE)>> \o fixNew.trace,
             reports |-> fixNew.reports \o <<"Cloned">>]
       ELSE [dir |-> left, trace |-> <<Ev("clone", FALSE)>>, reports |-> <<"Failed">>]

\* the results one iteration may see: the clone works, and get-url and
\* set-url work or not; or the clone fails and leaves something behind
CloneResults ==
    {[cloneOk |-> TRUE, left |-> AbsentDir, getOk |-> gs[1], setOk |-> gs[2]] :
        gs \in {<<TRUE, TRUE>>, <<TRUE, FALSE>>, <<FALSE, TRUE>>}}
    \cup {[cloneOk |-> FALSE, left |-> l, getOk |-> TRUE, setOk |-> TRUE] :
              l \in Leftovers(EmbedToken(CloneUrl))}

CloneStep(in) ==
    /\ pc = "clone"
    /\ queue # <<>>
    /\ LET n == RepoName(Head(queue))
           r == CloneRepo(ws[n], in.cloneOk, in.left, in.getOk, in.setOk)
       IN /\ ws' = [ws EXCEPT ![n] = r.dir]
          /\ last' = [Idle EXCEPT !.op = "clone", !.who = n, !.pre = ws[n],
                                  !.trace = r.trace, !.reports = r.reports]
    /\ queue' = Tail(queue)
    /\ UNCHANGED <<remote, pc, choice, mpath, outcome, gitFailed, eurl>>

CloneDone ==
    /\ pc = "clone"
    /\ queue = <<>>
    /\ pc' = "menu"
    /\ last' = Idle
    /\ UNCHANGED <<ws, remote, choice, queue, mpath, outcome, gitFailed, eurl>>

\* ------------------------------------------------------------------ per_repo_manager
\* git clone into an existing directory succeeds only if it is empty; the
\* workspace root is empty when no repository directory exists under it
CanCloneInto(p) == IF p = Root THEN \A n \in Names : ~Exists(ws[n]) ELSE TRUE

\* the answers per_repo_manager reads before cloning: the offer to clone is
\* declined, or accepted and a number (or other text) typed at the listing
OpenAnswers ==
    {[confirm |-> FALSE, listOk |-> TRUE, sel |-> NoSel]}
    \cup {[confirm |-> TRUE, listOk |-> l, sel |-> s] : l \in BOOLEAN, s \in FewSels}

\* the path is read; when it is not a git repository the user may clone one
\* of the account's repositories there; then the manager's loop starts
ManagerOpen(p, ans, in) ==
    /\ pc = "menu"
    /\ LET d == ws[p]
           url == EmbedToken(CloneUrl)
           confirm == ans.confirm
           sel == ans.sel
           r == Pick(ListRepos(ans.listOk), sel)
           cloned == in.cloneOk /\ CanCloneInto(p)
           left == in.left
           fix == FixRemote(RepoDir(url, "ok"), in.getOk, in.setOk)
           \* os.makedirs(os.path.dirname(path), exist_ok=True)
           w == IF p \in Names THEN MakeRoot(ws) ELSE ws
       IN IF IsGitRepo(d)
          THEN /\ pc' = "manage"
               /\ mpath' = p
               /\ last' = [Idle EXCEPT !.op = "open", !.who = p, !.pre = d]
               /\ ws' = ws
          ELSE IF ~confirm
          THEN /\ pc' = "done"
               /\ last' = [Idle EXCEPT !.op = "open", !.who = p, !.pre = d,
                                       !.asked = TRUE]
               /\ UNCHANGED <<ws, mpath>>
          ELSE IF r = 0
          THEN /\ pc' = "done"
               /\ last' = [Idle EXCEPT !.op = "open", !.who = p, !.pre = d, !.sel = sel,
                                       !.asked = TRUE, !.answer = TRUE,
                                       !.reports = <<"Failed">>]
               /\ UNCHANGED <<ws, mpath>>
          ELSE IF cloned
          THEN /\ pc' = "manage"
               /\ mpath' = p
               /\ ws' = [w EXCEPT ![p] = fix.dir]
               /\ last' = [Idle EXCEPT !.op = "open", !.who = p, !.pre = d, !.sel = sel,
                                       !.asked = TRUE, !.answer = TRUE,
                                       !.trace = <<Ev("clone", TRUE)>> \o fix.trace,
                                       !.reports = fix.reports \o <<"Cloned">>]
          ELSE /\ pc' = "done"
               /\ ws' = [w EXCEPT ![p] = IF Exists(d) THEN d ELSE left]
               /\ last' = [Idle EXCEPT !.op = "open", !.who = p, !.pre = d, !.sel = sel,
                                       !.asked = TRUE, !.answer = TRUE,
                                       !.trace = <<Ev("clone", FALSE)>>,
                                       !.reports = <<"Failed">>]
               /\ UNCHANGED mpath
    /\ UNCHANGED <<remote, choice, queue, outcome, gitFailed, eurl>>

\* one choice of the manager's loop: 1 pull, 2 push, 3 sync
ManageRepo(d, ch, in) ==
    LET pullT == <<Ev("pull", in.pullOk)>>
        cp == CommitAndPush(d, in, IF ch = "2" THEN "Pushed" ELSE "Synced",
                            IF ch = "2" THEN "Nothing to commit" ELSE "Nothing to sync")
        cpr == cp.reports \o (IF cp.raised THEN <<"Failed">> ELSE <<>>)
    IN IF ch = "1"
       THEN [dir |-> d, trace |-> pullT,
             reports |-> IF in.pullOk THEN <<"Pulled">> ELSE <<"Failed">>]
       ELSE IF ch = "2"
       THEN [dir |-> cp.dir, trace |-> cp.trace, reports |-> cpr]
       ELSE IF PullAborts(TRUE, in.pullOk)
       THEN [dir |-> d, trace |-> pullT, reports |-> <<"Failed">>]
       ELSE [dir |-> cp.dir, trace |-> pullT \o cp.trace, reports |-> cpr]

ManagerOp(ch, in) ==
    /\ pc = "manage"
    /\ ch \in {"1", "2", "3"}
    /\ LET r == ManageRepo(ws[mpath], ch, in)
       IN /\ ws' = [ws EXCEPT ![mpath] = r.dir]
          /\ last' = [Idle EXCEPT !.op = "manage" \o ch, !.who = mpath, !.pre = ws[mpath],
                                  !.trace = r.trace, !.reports = r.reports]
    /\ UNCHANGED <<remote, pc, choice, queue, mpath, outcome, gitFailed, eurl>>

\* 4) Back
ManagerBack ==
    /\ pc = "manage"
    /\ pc' = "menu"
    /\ mpath' = Root
    /\ last' = Idle
    /\ UNCHANGED <<ws, remote, choice, queue, outcome, gitFailed, eurl>>

\* the handler returns to main_menu's loop
Return ==
    /\ pc = "done"
    /\ pc' = "menu"
    /\ last' = Idle
    /\ UNCHANGED <<ws, remote, choice, queue, mpath, outcome, gitFailed, eurl>>

\* the user changes a file of a working tree
Edit(p) ==
    /\ pc = "menu"
    /\ IsGitRepo(ws[p])
    /\ ~ws[p].dirty
    /\ ws' = [ws EXCEPT ![p].dirty = TRUE]
    /\ UNCHANGED <<remote, pc, choice, queue, mpath, outcome, gitFailed, last, eurl>>

\* ------------------------------------------------------------------ specification
\* the workspace handlers: clone_to_workspace, batch_workspace_manager,
\* per_repo_manager, and the user editing working trees in between
InitDirs ==
    {AbsentDir, PlainDir("ok")}
    \cup {RepoDir(u, "ok") : u \in OriginForms \ {<<Scheme, Other, Scheme, Other>>}}

InitWs ==
    {w \in [Paths -> InitDirs] :
        /\ w[Root] \in {AbsentDir, PlainDir("ok")}
        /\ (w[Root] = AbsentDir => \A n \in Names : w[n] = AbsentDir)}

InitRest ==
    /\ remote = RepoIds
    /\ pc = "menu"
    /\ choice = "4"
    /\ queue = <<>>
    /\ mpath = Root
    /\ outcome = NoOutcome
    /\ gitFailed = {}
    /\ last = Idle

Init ==
    /\ ws \in InitWs
    /\ eurl = NoUrl
    /\ InitRest

Next ==
    \/ \E c \in {"1", "2", "3", "5"} : BatchStart(c)
    \/ \E in \in GitInputs : BatchStep(in)
    \/ BatchDone
    \/ \E in \in CloneAnswers : CloneStart(in)
    \/ \E in \in CloneResults : CloneStep(in)
    \/ CloneDone
    \/ \E p \in Paths, ans \in OpenAnswers, in \in CloneResults : ManagerOpen(p, ans, in)
    \/ \E ch \in {"1", "2", "3"}, in \in {g \in GitInputs : g.getOk /\ g.setOk} :
          ManagerOp(ch, in)
    \/ ManagerBack
    \/ Return
    \/ \E p \in Paths : Edit(p)

Spec == Init /\ [][Next]_vars

\* ------------------------------------------------------------------ delete_repo, repo_settings
\* the outcome of a handler that picked a repository: for action 4 the
\* confirmation is asked and, answered yes, the delete is called; actions 1
\* and 2 of repo_settings call repo.edit (the name and the visibility are not
\* part of the state); any other action cancels.  r = 0: the pick raised
Deletion(op, r, sel, action, ok, apiOk) ==
    LET asked == r # 0 /\ action = "4"
        deletes == asked /\ ok
        edits == r # 0 /\ action \in {"1", "2"}
    IN /\ remote' = IF deletes /\ apiOk THEN remote \ {r} ELSE remote
       /\ last' = [Idle EXCEPT !.op = op, !.who = r, !.sel = sel, !.asked = asked,
                               !.answer = deletes,
                               !.trace = IF deletes THEN <<Ev("delete", apiOk)>>
                                         ELSE IF edits THEN <<Ev("edit", apiOk)>>
                                         ELSE <<>>,
                               !.reports = IF r = 0 THEN <<"Failed">>
                                           ELSE IF deletes
                                           THEN (IF apiOk THEN <<"Deleted">> ELSE <<"Failed">>)
                                           ELSE IF edits
                                           THEN (IF apiOk THEN <<"Edited">> ELSE <<"Failed">>)
                                           ELSE <<"Cancelled">>]

DeleteRepo(listOk, sel, ok, apiOk) ==
    /\ pc = "menu"
    /\ ListRepos(listOk) # <<>>
    /\ Deletion("delete_repo", Pick(ListRepos(listOk), sel), sel, "4", ok, apiOk)
    /\ pc' = "done"
    /\ UNCHANGED <<ws, choice, queue, mpath, outcome, gitFailed, eurl>>

RepoSettings(listOk, sel, action, ok, apiOk) ==
    /\ pc = "menu"
    /\ ListRepos(listOk) # <<>>
    /\ Deletion("repo_settings", Pick(ListRepos(listOk), sel), sel, action, ok, apiOk)
    /\ pc' = "done"
    /\ UNCHANGED <<ws, choice, queue, mpath, outcome, gitFailed, eurl>>

\* the remote handlers: delete_repo and repo_settings
InitRemote ==
    /\ ws = [p \in Paths |-> AbsentDir]
    /\ eurl = NoUrl
    /\ InitRest

NextRemote ==
    \/ \E listOk \in BOOLEAN, sel \in Sels, ok \in BOOLEAN, apiOk \in BOOLEAN :
          DeleteRepo(listOk, sel, ok, apiOk)
    \/ \E listOk \in BOOLEAN, sel \in Sels, action \in {"1", "2", "4", "5"},
          ok \in BOOLEAN, apiOk \in BOOLEAN : RepoSettings(listOk, sel, action, ok, apiOk)
    \/ Return

SpecRemote == InitRemote /\ [][NextRemote]_vars

\* ------------------------------------------------------------------ URL rewriting
\* fix_remote_with_token called again and again on a repository whose origin
\* is any URL of up to MaxUrlLen symbols
InitEmbed ==
    /\ ws = [p \in Paths |-> AbsentDir]
    /\ eurl \in {[NoUrl EXCEPT !.before = u, !.once = u, !.now = u] : u \in Urls}
    /\ InitRest

Embed(getOk, setOk) ==
    /\ eurl.calls < MaxCalls
    /\ LET r == FixRemote(RepoDir(eurl.now, "ok"), getOk, setOk)
       IN eurl' = [eurl EXCEPT !.now = r.dir.origin,
                               !.once = IF eurl.calls = 0 THEN r.dir.origin ELSE @,
                               !.calls = @ + 1,
                               !.failed = @ \/ \E i \in 1..Len(r.trace) : Failed(r.trace[i])]
    /\ UNCHANGED <<ws, remote, pc, choice, queue, mpath, outcome, gitFailed, last>>

NextEmbed == \E getOk \in BOOLEAN, setOk \in BOOLEAN : Embed(getOk, setOk)

SpecEmbed == InitEmbed /\ [][NextEmbed]_vars

\* ------------------------------------------------------------------ claims
Called(t, cmd) == \E i \in 1..Len(t) : t[i].cmd = cmd
Calls(t, cmd) == Cardinality({i \in 1..Len(t) : t[i].cmd = cmd})
Before(t, a, b) == \A i, j \in 1..Len(t) : t[i].cmd = a /\ t[j].cmd = b => i < j
Committed(t) == Has(t, [cmd |-> "commit", res |-> "ok"])
CommitError(t) == Has(t, [cmd |-> "commit", res |-> "error"])
SaysNothing(r) == Has(r, "Nothing to commit") \/ Has(r, "Nothing to sync")

BatchDid(c) == last.op = "batch" /\ last.who # 0 /\ choice \in c
SyncDid == BatchDid({"3"}) \/ last.op = "manage3"
PullFailed == Has(last.trace, Ev("pull", FALSE))

C2_OneFailurePerFailingRepo ==
    pc = "batch" /\ queue = <<>> /\ choice \in {"1", "2", "3"} =>
        /\ \A n \in Names : IsGitRepo(ws[n]) => outcome[n] # "none"
        /\ \A n \in Names : outcome[n] = "failed" <=> n \in gitFailed

\* the part of C2 the code keeps: the run reaches every repository, whatever
\* failed before it
C2_EveryRepoReached ==
    pc = "batch" /\ queue = <<>> => \A n \in Names : IsGitRepo(ws[n]) => outcome[n] # "none"

CloneDid == last.op = "clone" /\ last.who # 0

\* C3 as stated: in clone-to-workspace a repository whose destination exists
\* is not cloned, has fix_remote_with_token run on it and is reported as
\* already there; one whose destination is absent is cloned and then has
\* fix_remote_with_token run on it.
C3_CloneThenEmbed ==
    CloneDid =>
        IF Exists(last.pre)
        THEN /\ ~Called(last.trace, "clone")
             /\ Called(last.trace, "get-url")
             /\ Has(last.reports, "Already exists")
        ELSE /\ Calls(last.trace, "clone") = 1
             /\ last.trace[1].cmd = "clone"
             /\ Called(last.trace, "get-url")

\* C3 amended: as stated, except that fix_remote_with_token runs after the
\* clone only when the clone succeeded; a failed clone is reported as failed
\* and nothing else is run for that repository.
C3_CloneThenEmbedIfCloned ==
    CloneDid =>
        IF Exists(last.pre)
        THEN /\ ~Called(last.trace, "clone")
             /\ Called(last.trace, "get-url")
             /\ Has(last.reports, "Already exists")
        ELSE /\ Calls(last.trace, "clone") = 1
             /\ last.trace[1].cmd = "clone"
             /\ IF last.trace[1].res = "ok"
                THEN /\ Len(last.trace) >= 2 /\ last.trace[2].cmd = "get-url"
                     /\ Has(last.reports, "Cloned")
                ELSE /\ last.trace = <<Ev("clone", FALSE)>>
                     /\ last.reports = <<"Failed">>

C3_Witness == CloneDid /\ ~Exists(last.pre) /\ Has(last.trace, Ev("clone", FALSE))

Reconciled ==
    /\ \/ BatchDid({"1", "2", "3"})
       \/ CloneDid
       \/ last.op \in {"manage1", "manage2", "manage3"}
    /\ IsGitRepo(ws[last.who])

SetUrlDone == Has(last.trace, Ev("get-url", TRUE)) /\ Has(last.trace, Ev("set-url", TRUE))

\* C4 as stated: once a reconciliation policy has processed a local
\* repository, its origin URL holds the process's credential, whatever the
\* URL was and whether or not set-url succeeded.
C4_OriginHasCredential == Reconciled => HasCredential(ws[last.who].origin)

\* C4 amended: once batch Pull, Push or Sync, or Clone, has processed a local
\* repository, its origin URL starts with https://TOKEN@ if the tool has just
\* cloned it, or if the URL was of the plain https:// form with no "@" and
\* both get-url and set-url succeeded; in every other case, and after the
\* per-repo manager's pull, push and sync, the origin URL is what it was.
C4_OriginRewrittenOnlyIfPlain ==
    Reconciled =>
        IF ~IsGitRepo(last.pre)
        THEN HasCredential(ws[last.who].origin)
        ELSE IF /\ BatchDid({"1", "2", "3"}) \/ CloneDid
                /\ StartsWithHttps(last.pre.origin) /\ ~HasAt(last.pre.origin)
                /\ SetUrlDone
        THEN HasCredential(ws[last.who].origin)
        ELSE ws[last.who].origin = last.pre.origin

C4_Witness ==
    /\ BatchDid({"1", "2", "3"})
    /\ last.pre.origin = <<Scheme, Other, At, Other>>
    /\ ~HasCredential(ws[last.who].origin)

\* C5 as stated: fix_remote_with_token applied twice leaves the origin URL it
\* leaves when applied once; a plain https:// URL with no "@" comes out with
\* the credential embedded exactly once, and any other URL comes out unchanged.
C5_EmbedOnceIdempotent ==
    eurl.calls >= 1 /\ ~eurl.failed =>
        /\ eurl.now = eurl.once
        /\ IF StartsWithHttps(eurl.before) /\ ~HasAt(eurl.before)
           THEN /\ HasCredential(eurl.once)
                /\ CountToken(eurl.once) = CountToken(eurl.before) + 1
           ELSE eurl.once = eurl.before

\* the part of C5 the code keeps: a second call changes nothing the first
\* call did, and URLs not of the plain form are left alone
C5_Idempotent ==
    eurl.calls >= 1 /\ ~eurl.failed =>
        /\ eurl.now = eurl.once
        /\ (~(StartsWithHttps(eurl.before) /\ ~HasAt(eurl.before)) => eurl.once = eurl.before)

PushDid == BatchDid({"2"})

\* C6 as stated: under the Push policy a repository with changes gets exactly
\* one commit and then exactly one push; one without changes gets no commit
\* and no push and is reported as "nothing to commit"; push runs only after a
\* commit that succeeded.
C6_CommitThenPush ==
    PushDid =>
        /\ IF last.pre.dirty
           THEN /\ Calls(last.trace, "commit") = 1 /\ Committed(last.trace)
                /\ Calls(last.trace, "push") = 1
                /\ Before(last.trace, "commit", "push")
           ELSE /\ ~Committed(last.trace)
                /\ ~Called(last.trace, "push")
                /\ Has(last.reports, "Nothing to commit")
        /\ (Called(last.trace, "push") => Committed(last.trace))

\* C6 amended: under the Push policy, when git add succeeds, a repository with
\* changes whose git commit succeeds gets exactly one commit and then exactly
\* one push, and one without changes gets no commit and no push and is
\* reported as "nothing to commit"; push runs only after a commit that
\* succeeded; when git add fails, or git commit fails on a tree with changes,
\* no commit is made and no push runs.
C6_CommitThenPushIfGitWorks ==
    PushDid =>
        /\ Calls(last.trace, "add") = 1
        /\ Calls(last.trace, "commit") <= 1
        /\ Calls(last.trace, "push") <= 1
        /\ IF Has(last.trace, Ev("add", FALSE))
           THEN /\ ~Called(last.trace, "commit") /\ ~Called(last.trace, "push")
                /\ Has(last.reports, "Failed")
           ELSE IF last.pre.dirty
           THEN \/ /\ Committed(last.trace)
                   /\ Calls(last.trace, "push") = 1
                   /\ Before(last.trace, "commit", "push")
                   /\ ~ws[last.who].dirty
                \/ /\ CommitError(last.trace)
                   /\ ~Called(last.trace, "push")
                   /\ ws[last.who].dirty
           ELSE /\ ~Committed(last.trace)
                /\ ~Called(last.trace, "push")
                /\ Has(last.reports, "Nothing to commit")
        /\ (Called(last.trace, "push") => Committed(last.trace))

C6_Witness ==
    PushDid /\ last.pre.dirty /\ Committed(last.trace) /\ Has(last.trace, Ev("push", TRUE))

\* C7 as stated: a git commit that fails although there were changes, or for
\* any reason other than a clean tree, is reported as a failure and not as
\* "nothing to commit"; "nothing to commit" is reported only for a clean tree.
C7_CommitErrorReported ==
    \/ BatchDid({"2", "3"})
    \/ last.op \in {"manage2", "manage3"}
    => /\ CommitError(last.trace) =>
            Has(last.reports, "Failed") /\ ~SaysNothing(last.reports)
       /\ SaysNothing(last.reports) =>
            Has(last.trace, [cmd |-> "commit", res |-> "clean"]) /\ ~last.pre.dirty

\* C8 as stated: a failed clone leaves no directory behind: every directory
\* that exists was there before or was made by a clone that succeeded, and
\* clone-to-workspace never skips a repository because of what a failed clone
\* left; a successful clone's directory is never deleted.
C8_NoLeftoverOfFailedClone ==
    /\ \A p \in Paths : Exists(ws[p]) => ws[p].src = "ok"
    /\ CloneDid /\ Has(last.reports, "Already exists") => last.pre.src = "ok"
    /\ CloneDid /\ Has(last.trace, Ev("clone", TRUE)) => IsGitRepo(ws[last.who])

FixDid == BatchDid({"1", "2", "3", "5"}) \/ CloneDid \/ last.op = "open"

\* C9 as stated: when get-url or set-url fails inside fix_remote_with_token,
\* a failure is reported for the repository, and "Updated remote" is not
\* recorded when set-url failed.
C9_EmbedFailureReported ==
    FixDid =>
        /\ Has(last.trace, Ev("get-url", FALSE)) \/ Has(last.trace, Ev("set-url", FALSE))
              => Has(last.reports, "Failed")
        /\ Has(last.trace, Ev("set-url", FALSE)) => ~Has(last.reports, "Updated remote")

\* the numbers the listing shows: 1..len(repos), for the list as it was when
\* the selection was typed
ValidSel == last.sel.isnum /\ 1 <= last.sel.n /\ last.sel.n <= Cardinality(remote \cup {last.who})

\* C10 as stated: delete_repo and repo_settings call the remote delete only
\* for a valid selection whose confirmation was asked and answered yes, and
\* at most once per confirmation.
C10_DeleteOnlyConfirmed ==
    last.op \in {"delete_repo", "repo_settings"} /\ Called(last.trace, "delete") =>
        /\ last.asked /\ last.answer
        /\ ValidSel
        /\ Calls(last.trace, "delete") = 1

\* the part of C10 the code keeps: no delete without a confirmation answered yes
C10_DeleteOnlyAfterYes ==
    last.op \in {"delete_repo", "repo_settings"} /\ Called(last.trace, "delete") =>
        last.asked /\ last.answer /\ Calls(last.trace, "delete") = 1

\* the git commands the batch manager runs
BatchCmds == {"get-url", "set-url", "pull", "add", "commit", "push"}

\* C11: nothing is retried.  While a batch run lasts, no repository is queued
\* twice and none that is still queued has been processed; the step of a
\* repository runs pull, commit and push at most once each and nothing but
\* get-url, set-url, pull, add, commit and push (no rebase, no forced push);
\* a failed pull or push is the last command of the step and the repository is
\* reported as failed.
C11_NoRetry ==
    /\ pc = "batch" =>
          /\ \A i, j \in 1..Len(queue) : i # j => queue[i] # queue[j]
          /\ \A i \in 1..Len(queue) : outcome[queue[i]] = "none"
    /\ BatchDid({"1", "2", "3", "5"}) =>
          /\ Calls(last.trace, "pull") <= 1
          /\ Calls(last.trace, "commit") <= 1
          /\ Calls(last.trace, "push") <= 1
          /\ \A i \in 1..Len(last.trace) : last.trace[i].cmd \in BatchCmds
          /\ \A i \in 1..Len(last.trace) :
                last.trace[i] \in {Ev("pull", FALSE), Ev("push", FALSE)} =>
                    /\ i = Len(last.trace)
                    /\ last.reports[Len(last.reports)] = "Failed"
                    /\ outcome[last.who] = "failed"

C11_Witness ==
    /\ BatchDid({"2", "3"})
    /\ Has(last.trace, Ev("push", FALSE))
    /\ pc = "batch" /\ queue # <<>>

\* C12: git clone is only ever invoked with a destination that does not exist
\* yet, by clone-to-workspace and by the per-repo manager alike.
C12_CloneOnlyIntoAbsent ==
    (CloneDid \/ last.op = "open") /\ Called(last.trace, "clone")
        => ~Exists(last.pre)

\* a Push or Sync step of the batch manager or of the per-repo manager
PushOrSyncDid == BatchDid({"2", "3"}) \/ last.op \in {"manage2", "manage3"}

\* the repository came into the step with an unpushed commit and a clean tree
UnpushedClean == last.pre.ahead /\ ~last.pre.dirty

\* C13 as stated: under batch Push or Sync a push is attempted only after a
\* commit made in the same run; a repository that holds an unpushed commit of
\* an earlier run and has a clean tree is reported as "Nothing to commit", no
\* push is attempted, and its commit stays unpushed.
C13_PushOnlyAfterCommit ==
    BatchDid({"2", "3"}) =>
        /\ (Called(last.trace, "push") => Committed(last.trace))
        /\ UnpushedClean =>
              /\ ~Called(last.trace, "push")
              /\ Has(last.reports, "Nothing to commit")
              /\ ws[last.who].ahead

\* C13 amended: under Push or Sync, in the batch manager and in the per-repo
\* manager, a push is attempted only after a commit made in the same run; a
\* repository that holds an unpushed commit of an earlier run and has a clean
\* tree gets no commit and no push and its commit stays unpushed; it is
\* reported as nothing to commit when the run's pull (under Sync) and git add
\* succeed, and as failed when one of them fails.
C13_PushOnlyAfterCommitIfGitWorks ==
    PushOrSyncDid =>
        /\ (Called(last.trace, "push") => Committed(last.trace))
        /\ (Called(last.trace, "push") => Before(last.trace, "commit", "push"))
        /\ UnpushedClean =>
              /\ ~Called(last.trace, "push")
              /\ ~Committed(last.trace)
              /\ ws[last.who].ahead
              /\ ~ws[last.who].dirty
              /\ IF Has(last.trace, Ev("pull", FALSE)) \/ Has(last.trace, Ev("add", FALSE))
                 THEN /\ ~SaysNothing(last.reports)
                      /\ last.reports[Len(last.reports)] = "Failed"
                 ELSE /\ SaysNothing(last.reports)
                      /\ ~Has(last.reports, "Failed")

C13_Witness ==
    /\ BatchDid({"2", "3"})
    /\ UnpushedClean
    /\ Has(last.trace, Ev("add", TRUE))
    /\ Has(last.reports, "Nothing to commit")
    /\ ws[last.who].ahead

====
